---- MODULE Spec2Model ----
(***************************************************************************)
(* A model of the lab-report scanner of src/app.py: the range extractor,   *)
(* the value extractor, the row parser with its fallback and its           *)
(* deduplication, the abnormality classifier, and the request handler.     *)
(*                                                                         *)
(* Text is a sequence of one-character strings, and the regular            *)
(* expressions of the source are translated character by character.        *)
(* A float is a fixed-point integer counting thousandths (Scale): the      *)
(* value pattern of extract_value admits at most three fraction digits.    *)
(* Python's None is the empty tuple, a present value x is <<x>>.           *)
(***************************************************************************)
EXTENDS Integers, Sequences, FiniteSets, TLC

\* ------------------------------------------------------------------ bounds

\* The most words a text span of the extractor harness is joined from.
MaxWords == 3
\* The most rows the text-source adapter hands to the row parser.
MaxRows == 3

\* ------------------------------------------------------------- characters

Scale == 1000

None == <<>>
Some(x) == <<x>>

Digit == {"0", "1", "2", "3", "4", "5", "6", "7", "8", "9"}
\* \s of the patterns: blank, line break, tab.
Space == {" ", "\n", "\t"}
\* [-–] of the patterns: the hyphen and the en dash (written "EN" here).
Dash == {"-", "EN"}

UpperCase ==
    <<"A", "B", "C", "D", "E", "F", "G", "H", "I", "J", "K", "L", "M",
      "N", "O", "P", "Q", "R", "S", "T", "U", "V", "W", "X", "Y", "Z">>
LowerCase ==
    <<"a", "b", "c", "d", "e", "f", "g", "h", "i", "j", "k", "l", "m",
      "n", "o", "p", "q", "r", "s", "t", "u", "v", "w", "x", "y", "z">>

Letters == {UpperCase[i] : i \in 1..26} \cup {LowerCase[i] : i \in 1..26}

IsLetter(c) == c \in Letters

LowerOf == [c \in {UpperCase[i] : i \in 1..26} |->
               LowerCase[CHOOSE i \in 1..26 : UpperCase[i] = c]]

\* str.lower() on one character, as re.IGNORECASE and row.lower() use it.
LowerChar(c) == IF c \in DOMAIN LowerOf THEN LowerOf[c] ELSE c

Lower(s) == [i \in 1..Len(s) |-> LowerChar(s[i])]

DigitVal(c) ==
    CASE c = "0" -> 0 [] c = "1" -> 1 [] c = "2" -> 2 [] c = "3" -> 3
      [] c = "4" -> 4 [] c = "5" -> 5 [] c = "6" -> 6 [] c = "7" -> 7
      [] c = "8" -> 8 [] c = "9" -> 9

RECURSIVE IntOf(_)
IntOf(ds) ==
    IF ds = <<>> THEN 0
    ELSE IntOf(SubSeq(ds, 1, Len(ds) - 1)) * 10 + DigitVal(ds[Len(ds)])

\* float(s) for s matching \d+(\.\d+)?, in thousandths; fraction digits past
\* the third are below the resolution of the model.
FloatOf(s) ==
    LET dots == {i \in 1..Len(s) : s[i] = "."}
        p    == IF dots = {} THEN Len(s) + 1 ELSE CHOOSE i \in dots : TRUE
        frac == SubSeq(s, p + 1, Len(s))
        f3   == SubSeq(frac \o <<"0", "0", "0">>, 1, 3)
    IN  IntOf(SubSeq(s, 1, p - 1)) * Scale + IntOf(f3)

\* s[i..] starts with lit, ignoring case (lit is given in lower case).
LitAt(s, i, lit) ==
    /\ i >= 1
    /\ i + Len(lit) - 1 <= Len(s)
    /\ \A k \in 1..Len(lit) : LowerChar(s[i + k - 1]) = lit[k]

\* lit occurs in s exactly (str.__contains__, str.find).
Occurs(s, i, lit) ==
    /\ i >= 1
    /\ i + Len(lit) - 1 <= Len(s)
    /\ \A k \in 1..Len(lit) : s[i + k - 1] = lit[k]

\* The first position at or after i that holds no character of set cs.
RECURSIVE SkipSet(_, _, _)
SkipSet(s, i, cs) ==
    IF i <= Len(s) /\ s[i] \in cs THEN SkipSet(s, i + 1, cs) ELSE i

\* Where a greedy \d+(?:\.\d+)? starting at i ends (exclusive); 0: no match.
\* Nothing that follows the number in a pattern can start with a digit or a
\* point, so the greedy match is the only one the regex engine can use.
NumEnd(s, i) ==
    IF i < 1 \/ i > Len(s) \/ s[i] \notin Digit THEN 0
    ELSE LET e1 == SkipSet(s, i, Digit)
         IN  IF e1 + 1 <= Len(s) /\ s[e1] = "." /\ s[e1 + 1] \in Digit
             THEN SkipSet(s, e1 + 1, Digit)
             ELSE e1

\* re.sub(r'\s+', ' ', text)
RECURSIVE CollapseSpace(_)
CollapseSpace(s) ==
    IF s = <<>> THEN <<>>
    ELSE IF Head(s) \in Space
         THEN LET j == SkipSet(s, 1, Space)
              IN  <<" ">> \o CollapseSpace(SubSeq(s, j, Len(s)))
         ELSE <<Head(s)>> \o CollapseSpace(Tail(s))

\* str.strip()
Strip(s) ==
    LET keep == {i \in 1..Len(s) : s[i] \notin Space}
    IN  IF keep = {} THEN <<>>
        ELSE SubSeq(s, CHOOSE i \in keep : \A k \in keep : i <= k,
                       CHOOSE i \in keep : \A k \in keep : i >= k)

\* t = re.sub(r'\s+', ' ', text).strip()
NormalizeSpace(text) == Strip(CollapseSpace(text))

\* ---------------------------------------------------------- extract_range

\* Line 77: RBC.*?(\d\.\d)\s*[-–]\s*(\d\.\d), and line 80 with \d{2}\.\d:
\* a decimal of n integer digits and one fraction digit starting at i; the
\* position after it, or 0.
ShortDecEnd(s, i, n) ==
    IF /\ i >= 1
       /\ i + n + 1 <= Len(s)
       /\ \A k \in 0..(n - 1) : s[i + k] \in Digit
       /\ s[i + n] = "."
       /\ s[i + n + 1] \in Digit
    THEN i + n + 2
    ELSE 0

\* (\d{n}\.\d)\s*[-–]\s*(\d{n}\.\d) matches starting at i.
ShortRangeAt(s, i, n) ==
    LET e1 == ShortDecEnd(s, i, n)
        j  == IF e1 = 0 THEN 0 ELSE SkipSet(s, e1, Space)
    IN  /\ e1 # 0
        /\ j <= Len(s)
        /\ s[j] \in Dash
        /\ ShortDecEnd(s, SkipSet(s, j + 1, Space), n) # 0

\* re.search(label .*? short range, t, re.IGNORECASE): the label somewhere,
\* the short range anywhere after it (t holds no line break for . to refuse).
TargetedMatch(t, label, n) ==
    \E i \in 1..Len(t) :
        /\ LitAt(t, i, label)
        /\ \E j \in (i + Len(label))..Len(t) : ShortRangeAt(t, j, n)

\* Line 85: (\d+(?:\.\d+)?)\s*(?:[-–]|to)\s*(\d+(?:\.\d+)?) matched at i:
\* the positions of its two groups and its end, or ok = FALSE.
DashAt(t, i) ==
    LET e1 == NumEnd(t, i)
        j  == IF e1 = 0 THEN 0 ELSE SkipSet(t, e1, Space)
        k  == IF e1 = 0 \/ j > Len(t) THEN 0
              ELSE IF t[j] \in Dash THEN j + 1
              ELSE IF LitAt(t, j, <<"t", "o">>) THEN j + 2
              ELSE 0
        m  == IF k = 0 THEN 0 ELSE SkipSet(t, k, Space)
        e2 == IF k = 0 THEN 0 ELSE NumEnd(t, m)
    IN  [ok |-> e2 # 0, s |-> i, e1 |-> e1, m |-> m, e |-> e2]

\* A keyword of lines 95 and 99, then \s*, then a number, matched at i.
BoundAt(t, i, words) ==
    LET hit == {w \in words : LitAt(t, i, w)}
        w   == IF hit = {} THEN <<>> ELSE CHOOSE x \in hit : TRUE
        m   == IF hit = {} THEN 0 ELSE SkipSet(t, i + Len(w), Space)
        e   == IF hit = {} THEN 0 ELSE NumEnd(t, m)
    IN  [ok |-> e # 0, s |-> i, m |-> m, e |-> e]

LessWords ==
    { <<"<">>,
      <<"l", "e", "s", "s", " ", "t", "h", "a", "n">>,
      <<"u", "p", " ", "t", "o">> }
MoreWords ==
    { <<">">>,
      <<"m", "o", "r", "e", " ", "t", "h", "a", "n">> }

\* re.search: the left-most position at or after i where the pattern of
\* line 85 matches; 0 when there is none.
RECURSIVE FirstDash(_, _)
FirstDash(t, i) ==
    IF i > Len(t) THEN 0
    ELSE IF DashAt(t, i).ok THEN i
    ELSE FirstDash(t, i + 1)

\* The same for the patterns of lines 95 and 99.
RECURSIVE FirstBound(_, _, _)
FirstBound(t, i, words) ==
    IF i > Len(t) THEN 0
    ELSE IF BoundAt(t, i, words).ok THEN i
    ELSE FirstBound(t, i + 1, words)

\* Lines 103 and 105: [\(\[]\s*(Low|L)\s*[\)\]], and the same for High|H.
MarkerMatch(t, long, short) ==
    \E i \in 1..Len(t) :
        /\ t[i] \in {"(", "["}
        /\ LET j == SkipSet(t, i + 1, Space)
           IN  \E w \in {long, short} :
                 /\ LitAt(t, j, w)
                 /\ LET k == SkipSet(t, j + Len(w), Space)
                    IN  k <= Len(t) /\ t[k] \in {")", "]"}

SentinelLow == 999999 * Scale
SentinelHigh == (0 - 999999) * Scale

Range(lo, hi, txt) == [min |-> Some(lo), max |-> Some(hi), txt |-> Some(txt)]
NoRange == [min |-> None, max |-> None, txt |-> None]

\* DateShaped with the date check left out.
DateShaped_Never(a, b) == FALSE

\* Line 90: the crude date check.
DateShaped(a, b) ==
    /\ 1900 * Scale <= a /\ a <= 2100 * Scale
    /\ 1 * Scale <= b /\ b <= 12 * Scale

RbcText == <<"3", ".", "5", "-", "5", ".", "5">>
HctText == <<"3", "7", ".", "0", "-", "5", "0", ".", "0">>

extract_range(text) ==
    IF text = <<>> THEN NoRange
    ELSE
    LET t  == NormalizeSpace(text)
        dp == FirstDash(t, 1)
        d  == DashAt(t, dp)
        a  == FloatOf(SubSeq(t, d.s, d.e1 - 1))
        b  == FloatOf(SubSeq(t, d.m, d.e - 1))
        lp == FirstBound(t, 1, LessWords)
        l  == BoundAt(t, lp, LessWords)
        mp == FirstBound(t, 1, MoreWords)
        g  == BoundAt(t, mp, MoreWords)
    IN  IF TargetedMatch(t, <<"r", "b", "c">>, 1)
            THEN Range((35 * Scale) \div 10, (55 * Scale) \div 10, RbcText)
        ELSE IF TargetedMatch(t, <<"h", "c", "t">>, 2)
            THEN Range(37 * Scale, 50 * Scale, HctText)
        ELSE IF dp # 0 /\ ~DateShaped(a, b)
            THEN Range(a, b, SubSeq(t, d.s, d.e - 1))
        ELSE IF lp # 0
            THEN Range(0, FloatOf(SubSeq(t, l.m, l.e - 1)), SubSeq(t, l.s, l.e - 1))
        ELSE IF mp # 0
            THEN Range(FloatOf(SubSeq(t, g.m, g.e - 1)), SentinelLow,
                       SubSeq(t, g.s, g.e - 1))
        ELSE IF MarkerMatch(t, <<"l", "o", "w">>, <<"l">>)
            THEN Range(SentinelLow, SentinelLow, <<"(", "L", "o", "w", ")">>)
        ELSE IF MarkerMatch(t, <<"h", "i", "g", "h">>, <<"h">>)
            THEN Range(SentinelHigh, SentinelHigh, <<"(", "H", "i", "g", "h", ")">>)
        ELSE NoRange

\* ---------------------------------------------------------- extract_value

\* str.replace(old, ""): every occurrence of old, left to right, none
\* overlapping, is removed.
RECURSIVE RemoveAll(_, _)
RemoveAll(s, old) ==
    IF s = <<>> \/ old = <<>> THEN s
    ELSE IF Occurs(s, 1, old)
         THEN RemoveAll(SubSeq(s, Len(old) + 1, Len(s)), old)
         ELSE <<Head(s)>> \o RemoveAll(Tail(s), old)

\* Line 117: re.sub(r'[^\d\.\s]', ' ', txt)
Denoise(s) ==
    [i \in 1..Len(s) |->
        IF s[i] \in Digit \cup {"."} \cup Space THEN s[i] ELSE " "]

\* Line 118: txt.replace(",", "")
DropCommas(s) == RemoveAll(s, <<",">>)

Min(a, b) == IF a <= b THEN a ELSE b

\* Where \d{1,4}(?:\.\d{1,3})? matched at a digit at i ends (exclusive).
TokenEnd(s, i) ==
    LET e1 == Min(SkipSet(s, i, Digit), i + 4)
    IN  IF e1 + 1 <= Len(s) /\ s[e1] = "." /\ s[e1 + 1] \in Digit
        THEN Min(SkipSet(s, e1 + 1, Digit), e1 + 4)
        ELSE e1

\* Line 120: re.findall(r"(\d{1,4}(?:\.\d{1,3})?)", txt) from position i on.
RECURSIVE FindTokens(_, _)
FindTokens(s, i) ==
    IF i > Len(s) THEN <<>>
    ELSE IF s[i] \in Digit
         THEN <<SubSeq(s, i, TokenEnd(s, i) - 1)>> \o FindTokens(s, TokenEnd(s, i))
         ELSE FindTokens(s, i + 1)

\* Lines 113-120: the numeric tokens left once the range text is taken out.
ValueTokens(text, range_txt) ==
    LET txt == IF range_txt # None /\ range_txt[1] # <<>>
               THEN RemoveAll(text, range_txt[1])
               ELSE text
    IN  FindTokens(DropCommas(Denoise(txt)), 1)

MaxPlausible == 2100

\* SelectCandidate without the guard of line 127.
SelectCandidate_First(nums) ==
    IF nums = <<>> THEN None ELSE Some(FloatOf(nums[1]))

\* Lines 121-137: the first token, or when it exceeds 2100 the first later
\* token that does not; None when there is no such token.
SelectCandidate(nums) ==
    IF nums = <<>> THEN None
    ELSE IF FloatOf(nums[1]) <= MaxPlausible * Scale THEN Some(FloatOf(nums[1]))
    ELSE LET later == {i \in 2..Len(nums) : FloatOf(nums[i]) <= MaxPlausible * Scale}
         IN  IF later = {} THEN None
             ELSE Some(FloatOf(nums[CHOOSE i \in later : \A k \in later : i <= k]))

\* is_valid_range that forgets the High marker.
is_valid_range_LowOnly(range_min, range_max) == range_min # SentinelLow

\* Lines 140 and 339: neither the Low marker's minimum nor the High marker's
\* maximum.
is_valid_range(range_min, range_max) ==
    range_min # SentinelLow /\ range_max # SentinelHigh

\* Repair without the upper test of line 141.
Repair_NoCeiling(val, range_min, range_max) ==
    IF /\ range_min # None
       /\ range_max # None
       /\ is_valid_range(range_min[1], range_max[1])
       /\ val < range_min[1]
       /\ val + 10 * Scale >= range_min[1]
    THEN val + 10 * Scale
    ELSE val

\* Lines 138-145: the leading-digit repair.
Repair(val, range_min, range_max) ==
    IF /\ range_min # None
       /\ range_max # None
       /\ is_valid_range(range_min[1], range_max[1])
       /\ val < range_min[1]
       /\ val + 10 * Scale >= range_min[1]
       /\ val + 10 * Scale <= range_max[1]
    THEN val + 10 * Scale
    ELSE val

\* extract_value, with the tokens it collected and the candidate it selected
\* beside the value it returns.
ValueTrace(text, range_min, range_max, range_txt) ==
    IF text = <<>> THEN [nums |-> <<>>, cand |-> None, val |-> None]
    ELSE LET nums == ValueTokens(text, range_txt)
             c    == SelectCandidate(nums)
         IN  [nums |-> nums,
              cand |-> c,
              val  |-> IF c = None THEN None
                       ELSE Some(Repair(c[1], range_min, range_max))]

extract_value(text, range_min, range_max, range_txt) ==
    ValueTrace(text, range_min, range_max, range_txt).val

\* --------------------------------------------------- parse_rows_to_results

\* Line 254, as character sequences.
skip_terms ==
    { <<"l", "a", "b", "o", "r", "a", "t", "o", "r", "y">>,
      <<"l", "a", "b", "o", "r", "a", "t", "o", "r", "y", " ", "r", "e", "p", "o", "r", "t">>,
      <<"t", "e", "s", "t", " ", "n", "a", "m", "e">>,
      <<"r", "e", "s", "u", "l", "t">>,
      <<"u", "n", "i", "t", "s">>,
      <<"p", "a", "g", "e">>,
      <<"d", "a", "t", "e">>,
      <<"d", "o", "c", "t", "o", "r">>,
      <<"p", "a", "t", "i", "e", "n", "t">>,
      <<"d", "i", "g", "i", "t", "a", "l", "l", "y", " ", "s", "i", "g", "n", "e", "d">> }

Contains(s, lit) == \E i \in 1..Len(s) : Occurs(s, i, lit)

\* Line 255: any(t in low for t in skip_terms)
IsSkipped(row) == \E t \in skip_terms : Contains(Lower(row), t)

\* Line 259: re.sub(r'[^A-Za-z]+', ' ', row).strip()
RECURSIVE CollapseNonLetters(_)
CollapseNonLetters(s) ==
    IF s = <<>> THEN <<>>
    ELSE IF ~IsLetter(Head(s))
         THEN LET nl == {i \in 1..Len(s) : IsLetter(s[i])}
                  j  == IF nl = {} THEN Len(s) + 1
                        ELSE CHOOSE i \in nl : \A k \in nl : i <= k
              IN  <<" ">> \o CollapseNonLetters(SubSeq(s, j, Len(s)))
         ELSE <<Head(s)>> \o CollapseNonLetters(Tail(s))

letters_only(row) == Strip(CollapseNonLetters(row))

\* The entries of TEST_MAPPING (lines 23-55) that the rows of the model
\* name, in table order, each with the aliases the rows use.
TEST_MAPPING ==
    << [name |-> "Hemoglobin", aliases |-> {<<"H", "b">>}],
       [name |-> "PCV",        aliases |-> {<<"P", "C", "V">>, <<"H", "C", "T">>}],
       [name |-> "RBC",        aliases |-> {<<"R", "B", "C">>}] >>

\* Line 57
ALL_KEYWORDS == UNION {TEST_MAPPING[i].aliases : i \in 1..Len(TEST_MAPPING)}

\* Line 266: the first entry of the table whose aliases hold the keyword.
std_name(keyword) ==
    LET hits == {i \in 1..Len(TEST_MAPPING) : keyword \in TEST_MAPPING[i].aliases}
    IN  IF hits = {} THEN None
        ELSE Some(TEST_MAPPING[CHOOSE i \in hits : \A k \in hits : i <= k].name)

\* Line 272: row.split(keyword, 1)[-1]: what follows the first exact
\* occurrence of the keyword, the whole row when there is none.
RECURSIVE FirstOccurrence(_, _, _)
FirstOccurrence(s, i, lit) ==
    IF i > Len(s) THEN 0
    ELSE IF Occurs(s, i, lit) THEN i
    ELSE FirstOccurrence(s, i + 1, lit)

AfterKeyword(row, keyword) ==
    LET at == FirstOccurrence(row, 1, keyword)
    IN  IF at = 0 THEN row ELSE SubSeq(row, at + Len(keyword), Len(row))

\* Lines 276-277 and 281-282: the range of a span, and the value found with
\* that range.
ExtractionWith(span, r) ==
    [min |-> r.min, max |-> r.max, txt |-> r.txt,
     val |-> extract_value(span, r.min, r.max, r.txt)]

Extraction(span) == ExtractionWith(span, extract_range(span))

\* RowExtraction whose fallback keeps a value the first span gave.
Fallback_Mixed(first, second) ==
    IF first.val = None \/ first.min = None
    THEN IF second.val # None /\ second.min # None
         THEN [second EXCEPT !.val = IF first.val # None THEN first.val ELSE @]
         ELSE first
    ELSE first

RowExtraction_Mixed(row, keyword) ==
    Fallback_Mixed(Extraction(AfterKeyword(row, keyword)), Extraction(row))

\* Lines 276-287: the span after the keyword first; the whole row when that
\* lacks the value or the range, taken only when it yields both.
Fallback(first, second) ==
    IF first.val = None \/ first.min = None
    THEN IF second.val # None /\ second.min # None THEN second ELSE first
    ELSE first

RowExtraction(row, keyword) ==
    Fallback(Extraction(AfterKeyword(row, keyword)), Extraction(row))

\* Lines 286-295: the guard before the append, and the record appended.
Appended(name, x) ==
    IF x.val = None \/ x.min = None THEN <<>>
    ELSE << [test_name |-> name,
             value     |-> x.val,
             min       |-> x.min,
             max       |-> x.max,
             range     |-> x.txt,
             status    |-> None] >>

\* Lines 252-295 for one row: the records it appends to results (none or
\* one). row.match is what process.extractOne answered for the row: an alias
\* of ALL_KEYWORDS as <<alias>>, or None below the score cutoff.
RowResults(row) ==
    IF IsSkipped(row.text) THEN <<>>
    ELSE IF Len(letters_only(row.text)) < 2 THEN <<>>
    ELSE IF row.match = None THEN <<>>
    ELSE IF std_name(row.match[1]) = None THEN <<>>
    ELSE Appended(std_name(row.match[1])[1],
                  RowExtraction(row.text, row.match[1]))

\* ScanRows that gives up at the first row that yields no record.
RECURSIVE ScanRows_Abort(_)
ScanRows_Abort(rs) ==
    IF rs = <<>> THEN <<>>
    ELSE IF RowResults(rs[1]) = <<>> THEN <<>>
    ELSE RowResults(rs[1]) \o ScanRows_Abort(Tail(rs))

\* Lines 250-295: the loop over the rows.
RECURSIVE ScanRows(_)
ScanRows(rs) ==
    IF rs = <<>> THEN <<>>
    ELSE ScanRows(SubSeq(rs, 1, Len(rs) - 1)) \o RowResults(rs[Len(rs)])

\* Unique that keeps the last record of a name instead of the first.
RECURSIVE Unique_KeepLast(_, _)
Unique_KeepLast(results, seen) ==
    IF results = <<>> THEN <<>>
    ELSE IF \E j \in 2..Len(results) : results[j].test_name = Head(results).test_name
         THEN Unique_KeepLast(Tail(results), seen)
         ELSE <<Head(results)>> \o Unique_KeepLast(Tail(results), seen)

\* Lines 297-304: deduplicate keeping first occurrence.
RECURSIVE Unique(_, _)
Unique(results, seen) ==
    IF results = <<>> THEN <<>>
    ELSE IF Head(results).test_name \notin seen
         THEN <<Head(results)>>
              \o Unique(Tail(results), seen \cup {Head(results).test_name})
         ELSE Unique(Tail(results), seen)

\* parse_rows_to_results without lines 297-304.
parse_rows_to_results_NoDedupe(rs) == ScanRows(rs)

parse_rows_to_results(rs) == Unique(ScanRows(rs), {})

\* ----------------------------------------------------------- get_abnormals

\* StatusOf with the bounds themselves counted as outside.
StatusOf_Inclusive(item) ==
    IF item.value = None \/ item.min = None THEN None
    ELSE IF ~is_valid_range(item.min[1], item.max[1]) THEN None
    ELSE IF item.value[1] <= item.min[1] THEN Some("Low")
    ELSE IF item.value[1] >= item.max[1] THEN Some("High")
    ELSE None

\* Lines 333-348 for one item: the status it is given (None: the key is not
\* set). A record's test_name is a name of the table, never None (line 267).
StatusOf(item) ==
    IF item.value = None \/ item.min = None THEN None
    ELSE IF ~is_valid_range(item.min[1], item.max[1]) THEN None
    ELSE IF item.value[1] < item.min[1] THEN Some("Low")
    ELSE IF item.value[1] > item.max[1] THEN Some("High")
    ELSE None

\* item["status"] = ...: the item is changed in place, a status it already
\* carries stays when none is assigned.
Marked(item) ==
    IF StatusOf(item) = None THEN item ELSE [item EXCEPT !.status = StatusOf(item)]

\* Lines 343-344 and 347-348: abn[name] = item unless the name is in abn.
RECURSIVE Abnormals(_, _)
Abnormals(items, names) ==
    IF items = <<>> THEN <<>>
    ELSE IF StatusOf(Head(items)) # None /\ Head(items).test_name \notin names
         THEN <<Marked(Head(items))>>
              \o Abnormals(Tail(items), names \cup {Head(items).test_name})
         ELSE Abnormals(Tail(items), names)

\* get_abnormals: the list it returns (abn) and all_data as it leaves it.
get_abnormals(data) ==
    [abn  |-> Abnormals(data, {}),
     data |-> [i \in 1..Len(data) |-> Marked(data[i])]]

\* ------------------------------------------------------------------ inputs

\* The words a span of the extractor harness is joined from: result values,
\* intervals (plain, one-decimal, two-digit one-decimal, inverted, broken
\* over a line as a table cell can be, date-shaped), the bound signs, the
\* qualitative markers and the two labels of the targeted fixes.
WordPool ==
    { <<"2">>,
      <<"9">>,
      <<"2", "0", "9", "9">>,
      <<"2", "1", "0", "1">>,
      <<"1", "2", "-", "1", "5">>,
      <<"4", ".", "5", "-", "6", ".", "5">>,
      <<"3", "6", ".", "5", "-", "4", "6", ".", "5">>,
      <<"5", "-", "1">>,
      <<"1", "2", "-", "\n", "1", "5">>,
      <<"2", "0", "1", "1", "-", "0", "8">>,
      <<"<">>,
      <<">">>,
      <<"(", "L", ")">>,
      <<"[", "H", "]">>,
      <<"R", "B", "C">>,
      <<"H", "C", "T">> }

\* The rows the text-source adapter can hand over, each with the answer of
\* the fuzzy matcher for it.
RowPool ==
    { [text |-> <<"H", "b", " ", "9", " ", "1", "2", "-", "1", "5">>,
       match |-> Some(<<"H", "b">>)],
      [text |-> <<"H", "b", " ", "1", "3", " ", "1", "2", "-", "1", "5">>,
       match |-> Some(<<"H", "b">>)],
      [text |-> <<"P", "C", "V", " ", "5", "5", " ", "[", "H", "]">>,
       match |-> Some(<<"P", "C", "V">>)],
      [text |-> <<"P", "C", "V", " ", "3", "0", " ", "3", "6", ".", "5", "-", "4", "6", ".", "5">>,
       match |-> Some(<<"P", "C", "V">>)],
      [text |-> <<"5", " ", "1", "2", "-", "1", "5", " ", "H", "b", " ", "9">>,
       match |-> Some(<<"H", "b">>)],
      [text |-> <<"D", "a", "t", "e", " ", "H", "b", " ", "9", " ", "1", "2", "-", "1", "5">>,
       match |-> Some(<<"H", "b">>)],
      [text |-> <<"H", "b", " ", "9">>,
       match |-> Some(<<"H", "b">>)],
      [text |-> <<"r", "b", "c", " ", "6", " ", "4", ".", "5", "-", "6", ".", "5">>,
       match |-> Some(<<"R", "B", "C">>)],
      [text |-> <<"x", "y", "z", " ", "2", "0", " ", "1", "2", "-", "1", "5">>,
       match |-> None],
      [text |-> <<"1", "6", " ", "1", "2", "-", "1", "5">>,
       match |-> None] }

\* " ".join(words) (line 212: a row is its words joined by blanks).
RECURSIVE Join(_)
Join(ws) ==
    IF ws = <<>> THEN <<>>
    ELSE IF Len(ws) = 1 THEN ws[1]
    ELSE ws[1] \o <<" ">> \o Join(Tail(ws))

\* ------------------------------------------------------------------- state

VARIABLES
    pc,         \* where main is: "reading", "analyzed", "classified", "shown", "crashed"
    rows,       \* the raw rows the adapter has collected
    results,    \* parse_rows_to_results' list before it is deduplicated
    all_data,   \* what analyze_file returned
    abnormals,  \* what get_abnormals returned
    ui,         \* what the page shows
    hpc,        \* the harness: "build", "extracted", "classified"
    words,      \* the words of the harness's span
    hx,         \* the harness's extraction: range, tokens, candidate, value
    hout        \* get_abnormals on the harness's observation

vars == <<pc, rows, results, all_data, abnormals, ui, hpc, words, hx, hout>>
mainVars == <<pc, rows, results, all_data, abnormals, ui>>
harnessVars == <<hpc, words, hx, hout>>

NoUi == [outcome |-> "none", warning |-> FALSE, cards |-> <<>>, debug |-> <<>>]
NoExtraction ==
    [min |-> None, max |-> None, txt |-> None, val |-> None,
     nums |-> <<>>, cand |-> None]
NoOutput == [abn |-> <<>>, data |-> <<>>]

Init ==
    /\ pc = "reading"
    /\ rows = <<>>
    /\ results = <<>>
    /\ all_data = <<>>
    /\ abnormals = <<>>
    /\ ui = NoUi
    /\ hpc = "build"
    /\ words = <<>>
    /\ hx = NoExtraction
    /\ hout = NoOutput

\* -------------------------------------------------------------------- main

\* extract_from_pdf (lines 163, 173) and extract_from_image (lines 231, 235)
\* collect one more row.
ReadRow(r) ==
    /\ pc = "reading"
    /\ Len(rows) < MaxRows
    /\ rows' = Append(rows, r)
    /\ UNCHANGED <<pc, results, all_data, abnormals, ui, harnessVars>>

\* The adapter raises (lines 174-176, 244-246), analyze_file raises it again
\* (lines 323-325) and main's handler reports the crash (lines 416-420).
ReadFail ==
    /\ pc = "reading"
    /\ pc' = "crashed"
    /\ ui' = [outcome |-> "crash", warning |-> FALSE, cards |-> <<>>, debug |-> <<>>]
    /\ UNCHANGED <<rows, results, all_data, abnormals, harnessVars>>

\* The adapter returned its rows: line 327, then line 388.
AnalyzeFile ==
    /\ pc = "reading"
    /\ pc' = "analyzed"
    /\ results' = ScanRows(rows)
    /\ all_data' = parse_rows_to_results(rows)
    /\ UNCHANGED <<rows, abnormals, ui, harnessVars>>

\* Line 389
GetAbnormals ==
    /\ pc = "analyzed"
    /\ pc' = "classified"
    /\ \E out \in {get_abnormals(all_data)} :
           /\ abnormals' = out.abn
           /\ all_data' = out.data
    /\ UNCHANGED <<rows, results, ui, harnessVars>>

\* Lines 391-414
Render ==
    /\ pc = "classified"
    /\ pc' = "shown"
    /\ ui' = [outcome |-> "results",
              warning |-> (all_data = <<>>),
              cards   |-> abnormals,
              debug   |-> all_data]
    /\ UNCHANGED <<rows, results, all_data, abnormals, harnessVars>>

Next ==
    \/ \E r \in RowPool : ReadRow(r)
    \/ ReadFail
    \/ AnalyzeFile
    \/ GetAbnormals
    \/ Render

Spec == Init /\ [][Next]_vars

\* --------------------------------------------------- the extractor harness

AddWord(w) ==
    /\ hpc = "build"
    /\ Len(words) < MaxWords
    /\ words' = Append(words, w)
    /\ UNCHANGED <<hpc, hx, hout, mainVars>>

\* Lines 276-277 on the span: extract_range, then extract_value with what it
\* returned; the tokens and the candidate of extract_value are kept.
Extract ==
    /\ hpc = "build"
    /\ hpc' = "extracted"
    /\ \E span \in {Join(words)} :
       \E r \in {extract_range(span)} :
       \E v \in {ValueTrace(span, r.min, r.max, r.txt)} :
           hx' = [min |-> r.min, max |-> r.max, txt |-> r.txt,
                  val |-> v.val, nums |-> v.nums, cand |-> v.cand]
    /\ UNCHANGED <<words, hout, mainVars>>

\* Lines 286-295, then get_abnormals on the one record.
Classify ==
    /\ hpc = "extracted"
    /\ hx.val # None
    /\ hx.min # None
    /\ hpc' = "classified"
    /\ hout' = get_abnormals(<< [test_name |-> "Test", value |-> hx.val,
                                 min |-> hx.min, max |-> hx.max,
                                 range |-> hx.txt, status |-> None] >>)
    /\ UNCHANGED <<words, hx, mainVars>>

NextExtract ==
    \/ \E w \in WordPool : AddWord(w)
    \/ Extract
    \/ Classify

SpecExtract == Init /\ [][NextExtract]_vars

\* ---------------------------------------------- claims on the extractors
\* (checked under SpecExtract)

Span == Join(words)
Extracted == hpc \in {"extracted", "classified"}

\* The positions of a normalised span where the interval pattern matches,
\* and the interval read at such a position.
IntervalStarts(t) == {i \in 1..Len(t) : DashAt(t, i).ok}
IntervalAt(t, i) ==
    LET d == DashAt(t, i)
    IN  [a   |-> FloatOf(SubSeq(t, d.s, d.e1 - 1)),
         b   |-> FloatOf(SubSeq(t, d.m, d.e - 1)),
         txt |-> SubSeq(t, d.s, d.e - 1),
         s   |-> d.s,
         e   |-> d.e]
LooksLikeDate(iv) ==
    /\ iv.a >= 1900 * Scale /\ iv.a <= 2100 * Scale
    /\ iv.b >= 1 * Scale /\ iv.b <= 12 * Scale
\* Position i starts a number: no digit or point stands before it.
NumberStart(t, i) == i = 1 \/ t[i - 1] \notin Digit \cup {"."}
LeftMost(S) == CHOOSE i \in S : \A k \in S : i <= k

UpperBoundStarts(t) == {i \in 1..Len(t) : BoundAt(t, i, LessWords).ok}
LowerBoundStarts(t) == {i \in 1..Len(t) : BoundAt(t, i, MoreWords).ok}
BoundRead(t, i, ws) ==
    LET m == BoundAt(t, i, ws)
    IN  [n |-> FloatOf(SubSeq(t, m.m, m.e - 1)), txt |-> SubSeq(t, m.s, m.e - 1)]
HasLowMarker(t) == MarkerMatch(t, <<"l", "o", "w">>, <<"l">>)
HasHighMarker(t) == MarkerMatch(t, <<"h", "i", "g", "h">>, <<"h">>)

HxRange == [min |-> hx.min, max |-> hx.max, txt |-> hx.txt]

\* What the patterns below the numeric interval give, in their order.
AfterInterval(t) ==
    IF UpperBoundStarts(t) # {}
    THEN LET u == BoundRead(t, LeftMost(UpperBoundStarts(t)), LessWords)
         IN  Range(0, u.n, u.txt)
    ELSE IF LowerBoundStarts(t) # {}
    THEN LET l == BoundRead(t, LeftMost(LowerBoundStarts(t)), MoreWords)
         IN  Range(l.n, 999999 * Scale, l.txt)
    ELSE IF HasLowMarker(t)
    THEN Range(999999 * Scale, 999999 * Scale, <<"(", "L", "o", "w", ")">>)
    ELSE IF HasHighMarker(t)
    THEN Range((0 - 999999) * Scale, (0 - 999999) * Scale,
               <<"(", "H", "i", "g", "h", ")">>)
    ELSE NoRange

\* C1 as stated: whenever the span holds a numeric interval that is not
\* date-shaped, extract_range returns that interval's numbers and text;
\* otherwise the upper-bound, lower-bound, Low, High patterns in that order.
C1_Original ==
    (Extracted /\ Span # <<>>) =>
        LET t    == NormalizeSpace(Span)
            real == {i \in IntervalStarts(t) :
                        /\ NumberStart(t, i)
                        /\ ~LooksLikeDate(IntervalAt(t, i))}
        IN  IF real # {}
            THEN \E i \in real :
                    HxRange = Range(IntervalAt(t, i).a, IntervalAt(t, i).b,
                                    IntervalAt(t, i).txt)
            ELSE HxRange = AfterInterval(t)

\* C1 as amended: a span that matches the RBC fix gives (3.5, 5.5,
\* "3.5-5.5"), else one that matches the HCT fix gives (37.0, 50.0,
\* "37.0-50.0"); otherwise only the left-most numeric interval is
\* looked at: when it is not date-shaped the result is its numbers and its
\* text, and when there is none or it is date-shaped the result is that of
\* the upper-bound, lower-bound, Low, High patterns in that order, else none.
C1_Amended ==
    (Extracted /\ Span # <<>>) =>
        LET t == NormalizeSpace(Span)
        IN  IF TargetedMatch(t, <<"r", "b", "c">>, 1)
            THEN HxRange = Range(3500, 5500, <<"3", ".", "5", "-", "5", ".", "5">>)
            ELSE IF TargetedMatch(t, <<"h", "c", "t">>, 2)
            THEN HxRange = Range(37000, 50000,
                                 <<"3", "7", ".", "0", "-", "5", "0", ".", "0">>)
            ELSE IF /\ IntervalStarts(t) # {}
                    /\ ~LooksLikeDate(IntervalAt(t, LeftMost(IntervalStarts(t))))
            THEN LET iv == IntervalAt(t, LeftMost(IntervalStarts(t)))
                 IN  HxRange = Range(iv.a, iv.b, iv.txt)
            ELSE HxRange = AfterInterval(t)

\* C1's case: the left-most interval is date-shaped, a later interval is
\* not, and the result is the upper-bound range that follows the date.
C1_Witness ==
    /\ hpc = "extracted"
    /\ Span # <<>>
    /\ LET t == NormalizeSpace(Span)
       IN  /\ ~TargetedMatch(t, <<"r", "b", "c">>, 1)
           /\ IntervalStarts(t) # {}
           /\ LooksLikeDate(IntervalAt(t, LeftMost(IntervalStarts(t))))
           /\ UpperBoundStarts(t) # {}
           /\ hx.min = Some(0)

\* The interval pattern matched on the line as it was written, the line
\* with that match cut out, and the numeric tokens of what is left.
LineInterval == DashAt(Span, FirstDash(Span, 1))
OutsideInterval ==
    SubSeq(Span, 1, LineInterval.s - 1) \o <<" ">>
        \o SubSeq(Span, LineInterval.e, Len(Span))
OutsideTokens == FindTokens(Denoise(OutsideInterval), 1)

\* C2 as stated, for a line with one numeric interval A-B, A < B, that
\* extract_range returned, and a result token at most 2100 that the +10
\* repair does not apply to: the value is the left-most token outside the
\* interval's text.
C2_Claim ==
    ( /\ Extracted
      /\ FirstDash(Span, 1) # 0
      /\ hx.min = Some(FloatOf(SubSeq(Span, LineInterval.s, LineInterval.e1 - 1)))
      /\ hx.max = Some(FloatOf(SubSeq(Span, LineInterval.m, LineInterval.e - 1)))
      /\ hx.min[1] < hx.max[1]
      /\ FirstDash(OutsideInterval, 1) = 0
      /\ OutsideTokens # <<>>
      /\ FloatOf(OutsideTokens[1]) <= 2100 * Scale
      /\ ~( /\ FloatOf(OutsideTokens[1]) < hx.min[1]
            /\ FloatOf(OutsideTokens[1]) + 10 * Scale >= hx.min[1]
            /\ FloatOf(OutsideTokens[1]) + 10 * Scale <= hx.max[1] ) )
    => hx.val = Some(FloatOf(OutsideTokens[1]))

\* C3 as stated: a left-most token 2099 with a smaller token later in the
\* list is never the value returned.
C3_Original ==
    ( /\ Extracted
      /\ hx.nums # <<>>
      /\ FloatOf(hx.nums[1]) = 2099 * Scale
      /\ \E i \in 2..Len(hx.nums) : FloatOf(hx.nums[i]) < 2099 * Scale )
    => hx.val # Some(2099 * Scale)

\* C3 as amended: when the left-most token exceeds 2100 and a later token
\* does not, the value is the first later token that is at most 2100, as it
\* is or with the +10 repair, and never the left-most token.
C3_Amended ==
    ( /\ Extracted
      /\ hx.nums # <<>>
      /\ FloatOf(hx.nums[1]) > 2100 * Scale
      /\ \E i \in 2..Len(hx.nums) : FloatOf(hx.nums[i]) <= 2100 * Scale )
    => \E i \in 2..Len(hx.nums) :
          /\ FloatOf(hx.nums[i]) <= 2100 * Scale
          /\ \A k \in 2..(i - 1) : FloatOf(hx.nums[k]) > 2100 * Scale
          /\ hx.val # None
          /\ hx.val[1] \in {FloatOf(hx.nums[i]), FloatOf(hx.nums[i]) + 10 * Scale}
          /\ hx.val[1] # FloatOf(hx.nums[1])

\* C3's case: the left-most token is 2101 and the value is the later 9.
C3_Witness ==
    /\ hpc = "extracted"
    /\ Len(hx.nums) >= 2
    /\ FloatOf(hx.nums[1]) = 2101 * Scale
    /\ hx.val = Some(9 * Scale)

\* The candidate extract_value selected and the value it returned.
Cand == hx.cand[1]
Value == hx.val[1]

\* C6 as stated: 10 is added exactly when a range is there, neither bound
\* is a sentinel (the markers' 999999 and -999999, the 999999 ceiling of a
\* lower-bound-only range), the candidate is below the minimum and
\* candidate + 10 lies in [min, max]; otherwise the candidate is returned.
C6_Original ==
    (Extracted /\ hx.cand # None) =>
        /\ hx.val # None
        /\ IF /\ hx.min # None
              /\ hx.min[1] \notin {999999 * Scale, (0 - 999999) * Scale}
              /\ hx.max[1] \notin {999999 * Scale, (0 - 999999) * Scale}
              /\ Cand < hx.min[1]
              /\ hx.min[1] <= Cand + 10 * Scale
              /\ Cand + 10 * Scale <= hx.max[1]
           THEN Value = Cand + 10 * Scale
           ELSE Value = Cand

\* C6 as amended: the range counts as real when its minimum is not 999999
\* and its maximum is not -999999, so a lower-bound-only range with its
\* 999999 ceiling is repaired against like a numeric interval; 10 is added
\* exactly when such a range is there, the candidate is below the minimum
\* and candidate + 10 lies in [min, max]; otherwise the candidate is returned.
C6_Amended ==
    (Extracted /\ hx.cand # None) =>
        /\ hx.val # None
        /\ IF /\ hx.min # None
              /\ hx.min[1] # 999999 * Scale
              /\ hx.max[1] # (0 - 999999) * Scale
              /\ Cand < hx.min[1]
              /\ hx.min[1] <= Cand + 10 * Scale
              /\ Cand + 10 * Scale <= hx.max[1]
           THEN Value = Cand + 10 * Scale
           ELSE Value = Cand

\* C6's case: candidate 2 under the lower-bound-only range "> 9" is
\* returned as 12.
C6_Witness ==
    /\ hpc = "extracted"
    /\ hx.cand = Some(2 * Scale)
    /\ hx.min = Some(9 * Scale)
    /\ hx.max = Some(999999 * Scale)
    /\ hx.val = Some(12 * Scale)

\* The observation the harness classified, and whether it was returned.
Observation == hout.data[1]
Reported == hout.abn # <<>>
GenuineRange ==
    hx.min[1] # 999999 * Scale /\ hx.max[1] # (0 - 999999) * Scale

\* C4 as stated: under a genuine numeric range the status is Low exactly
\* when value < min and High exactly when value > max; a value in
\* [min, max] has no status and is not returned; what is returned has
\* status Low or High.
C4_Original ==
    (hpc = "classified" /\ GenuineRange) =>
        /\ (Observation.status = Some("Low")) <=> (Value < hx.min[1])
        /\ (Observation.status = Some("High")) <=> (Value > hx.max[1])
        /\ (hx.min[1] <= Value /\ Value <= hx.max[1])
              => (Observation.status = None /\ ~Reported)
        /\ \A i \in 1..Len(hout.abn) :
              hout.abn[i].status \in {Some("Low"), Some("High")}

\* C4 as amended: the status is Low exactly when value < min, and High
\* exactly when value > max and value is not below min (the Low test comes
\* first, which matters for an interval written with min > max); the rest
\* as stated.
C4_Amended ==
    (hpc = "classified" /\ GenuineRange) =>
        /\ (Observation.status = Some("Low")) <=> (Value < hx.min[1])
        /\ (Observation.status = Some("High"))
              <=> (Value > hx.max[1] /\ ~(Value < hx.min[1]))
        /\ (hx.min[1] <= Value /\ Value <= hx.max[1])
              => (Observation.status = None /\ ~Reported)
        /\ Reported <=> (Observation.status # None)
        /\ \A i \in 1..Len(hout.abn) :
              hout.abn[i].status \in {Some("Low"), Some("High")}

\* C4's case: a value exactly at the minimum of its interval was classified
\* and is not reported.
C4_Witness ==
    /\ hpc = "classified"
    /\ hx.txt = Some(<<"1", "2", "-", "1", "5">>)
    /\ hx.min = Some(12 * Scale)
    /\ hx.max = Some(15 * Scale)
    /\ Value = hx.min[1]
    /\ ~Reported

\* C5: under the Low marker's pair (999999, 999999) or the High marker's
\* pair (-999999, -999999) extract_value returns its candidate without the
\* +10 repair, and get_abnormals gives the observation no status and does
\* not return it.
MarkerPair ==
    \/ hx.min = Some(999999 * Scale) /\ hx.max = Some(999999 * Scale)
    \/ hx.min = Some((0 - 999999) * Scale) /\ hx.max = Some((0 - 999999) * Scale)

C5_Theorem ==
    /\ (Extracted /\ MarkerPair /\ hx.cand # None) => hx.val = hx.cand
    /\ (hpc = "classified" /\ MarkerPair) =>
          (Observation.status = None /\ ~Reported)

\* C5's case: a value read beside a High marker went through
\* get_abnormals.
C5_Witness ==
    /\ hpc = "classified"
    /\ hx.min = Some((0 - 999999) * Scale)
    /\ hx.val # None

\* ------------------------------------------------- claims on the pipeline
\* (checked under Spec)

Analyzed == pc \in {"analyzed", "classified", "shown"}

\* A row that gets as far as the extractors: not a header or footer line,
\* at least two letters, a keyword matched.
Eligible(row) ==
    /\ ~IsSkipped(row.text)
    /\ Len(letters_only(row.text)) >= 2
    /\ row.match # None

\* The two spans a row is evaluated on.
SpansOf(row) == {AfterKeyword(row.text, row.match[1]), row.text}

YieldsBoth(x) == x.val # None /\ x.min # None

\* C7: every record parse_rows_to_results builds has a value and a range
\* minimum, and its value, minimum, maximum and range text are the
\* extraction of one span of one row (the text after the keyword, or the
\* whole row); a row with no span that yields both a value and a range
\* builds no record, so there are as many records as rows with such a span.
C7_Theorem ==
    (pc = "analyzed") =>
        /\ \A k \in 1..Len(results) :
              /\ results[k].value # None
              /\ results[k].min # None
              /\ \E i \in 1..Len(rows) :
                    /\ Eligible(rows[i])
                    /\ results[k].test_name = std_name(rows[i].match[1])[1]
                    /\ \E sp \in SpansOf(rows[i]) : \E x \in {Extraction(sp)} :
                          /\ YieldsBoth(x)
                          /\ results[k].value = x.val
                          /\ results[k].min = x.min
                          /\ results[k].max = x.max
                          /\ results[k].range = x.txt
        /\ Len(results) =
              Cardinality({i \in 1..Len(rows) :
                  /\ Eligible(rows[i])
                  /\ \E sp \in SpansOf(rows[i]) : YieldsBoth(Extraction(sp))})
        /\ \A k \in 1..Len(all_data) :
              \E j \in 1..Len(results) : all_data[k] = results[j]

\* C7's case: the text after the keyword holds a value and no range, the
\* whole row holds a range and another value, and the record is the whole
\* row's.
C7_Witness ==
    /\ pc = "analyzed"
    /\ Len(rows) = 1
    /\ Len(results) = 1
    /\ rows[1].match # None
    /\ LET after == Extraction(AfterKeyword(rows[1].text, rows[1].match[1]))
           whole == Extraction(rows[1].text)
       IN  /\ after.val # None /\ after.min = None
           /\ whole.val # None /\ whole.val # after.val
           /\ results[1].value = whole.val
           /\ results[1].min = whole.min

\* The records that are the first of their test name in scan order.
Firsts ==
    {i \in 1..Len(results) :
        \A j \in 1..(i - 1) : results[j].test_name # results[i].test_name}
Nth(S, k) == CHOOSE i \in S : Cardinality({j \in S : j <= i}) = k
Plain(rec) == [rec EXCEPT !.status = None]
PositionOf(name) == CHOOSE m \in 1..Len(all_data) : all_data[m].test_name = name

\* C8: the list parse_rows_to_results returns is the scan's records that
\* are the first of their test name, in scan order, one per name; the list
\* get_abnormals returns holds one record per name, each a record of that
\* list, in the same order.
C8_Theorem ==
    Analyzed =>
        /\ Len(all_data) = Cardinality(Firsts)
        /\ \A k \in 1..Len(all_data) : Plain(all_data[k]) = results[Nth(Firsts, k)]
        /\ \A k \in 1..Len(abnormals) :
              \E m \in 1..Len(all_data) : abnormals[k] = all_data[m]
        /\ \A k, l \in 1..Len(abnormals) :
              k < l => PositionOf(abnormals[k].test_name)
                          < PositionOf(abnormals[l].test_name)

\* C8's case: two different records of one test name were scanned, then a
\* record of another name, and the lists were returned.
C8_Witness ==
    /\ pc = "classified"
    /\ Len(results) = 3
    /\ results[1].test_name = results[2].test_name
    /\ results[1] # results[2]
    /\ results[3].test_name # results[1].test_name
    /\ Len(all_data) = 2
    /\ Len(abnormals) = 2

\* C9: a failure of the text-source adapter ends the request with the
\* crash report and nothing returned or shown; a document that was read
\* ends with the results page, with the no-results warning exactly when no
\* observation was extracted; and a row that yields no record is dropped
\* while every row that yields one has it in the scan's results.
C9_Theorem ==
    /\ (pc = "crashed") =>
          /\ ui = [outcome |-> "crash", warning |-> FALSE,
                   cards |-> <<>>, debug |-> <<>>]
          /\ results = <<>> /\ all_data = <<>> /\ abnormals = <<>>
    /\ (ui.outcome = "crash") => pc = "crashed"
    /\ (pc = "shown") =>
          /\ ui.outcome = "results"
          /\ ui.warning <=> (all_data = <<>>)
          /\ ui.cards = abnormals
          /\ ui.debug = all_data
    /\ (pc = "analyzed") =>
          \A i \in 1..Len(rows) : \E rr \in {RowResults(rows[i])} :
              rr # <<>> => \E k \in 1..Len(results) : results[k] = rr[1]

\* C9's case: the adapter failed after it had collected rows that hold an
\* observation, and the crash was reported.
C9_Witness ==
    /\ pc = "crashed"
    /\ Len(rows) >= 1
    /\ RowResults(rows[1]) # <<>>

CanonicalNames == {TEST_MAPPING[i].name : i \in 1..Len(TEST_MAPPING)}

OutOfRange(rec) ==
    /\ rec.min[1] # 999999 * Scale
    /\ rec.max[1] # (0 - 999999) * Scale
    /\ (rec.value[1] < rec.min[1] \/ rec.value[1] > rec.max[1])

\* C10: once main has run get_abnormals on what analyze_file returned, a
\* test name is reported exactly when the first record scanned for it has
\* a genuine numeric range and lies outside it.
C10_Theorem ==
    (pc \in {"classified", "shown"}) =>
        \A n \in CanonicalNames :
            (\E k \in 1..Len(abnormals) : abnormals[k].test_name = n)
            <=> (\E i \in Firsts : results[i].test_name = n /\ OutOfRange(results[i]))

\* C10's case: the first record of a test is in range or marker-ranged, a
\* later record of the same test is out of range, and the test is not
\* reported.
C10_Witness ==
    /\ pc = "classified"
    /\ Len(results) = 2
    /\ results[1].test_name = results[2].test_name
    /\ ~OutOfRange(results[1])
    /\ OutOfRange(results[2])
    /\ abnormals = <<>>

====
